---------------------------- MODULE Spec2Model ----------------------------
(***************************************************************************)
(* elex-proxy: HTTP to WebSocket JSON-RPC proxy (src/src/main.rs).         *)
(*                                                                         *)
(* The model covers the id allocator (get_next_id), the per-slot pending   *)
(* registries (Callbacks), the outbound queues, the upstream clients       *)
(* (try_new_client), the request coordinator (handle_request), the HTTP    *)
(* handlers (handle_get, handle_post, handle_health), the result cache and *)
(* the tip poller spawned in main.                                         *)
(*                                                                         *)
(* JSON values are represented by their text; Option::None is the value    *)
(* None.  Integers of the id counter keep a width of IdBits bits.          *)
(***************************************************************************)
EXTENDS Integers, Sequences, FiniteSets, TLC

(***************************************************************************)
(* Bounds of the model.                                                    *)
(***************************************************************************)
\* width of the id counter in bits (32 in the program, AtomicU32)
IdBits == 2
\* frames admitted on one outbound queue before new requests are held back
MaxQueue == 1
\* sender tasks of earlier connections alive at one time, per slot
MaxStale == 1

\* number of values of the counter, and u32::MAX at this width
IdModulus == 2 ^ IdBits
U32_MAX == IdModulus - 1
Ids == 0 .. U32_MAX

(***************************************************************************)
(* Tasks and slots.                                                        *)
(***************************************************************************)
\* HTTP handler tasks (axum spawns one per request; a name is reused once
\* its request has been answered)
Handlers == {"h1", "h2"}
\* the task spawned in main that polls the chain tip
Poller == "poller"
Procs == Handlers \cup {Poller}
\* ELECTRUMX_WS_INSTANCE upstream slots: calls[i] = (ws_tx, callbacks)
Slots == {0, 1}

None == "<none>"

(***************************************************************************)
(* JSON values met by the program, by their text.                          *)
(***************************************************************************)
GetGlobal == "blockchain.atomicals.get_global"
Methods == {GetGlobal, "blockchain.block.header"}

\* serde_json::Value::Array contents of params
NoParams == "[]"
ParamArrays == {"[]", "[\"100\"]"}

\* "result" member of an upstream text frame: absent, null, or a value
TipObject(h) == IF h = 1 THEN "{\"global\":{\"height\":1}}"
                         ELSE "{\"global\":{\"height\":2}}"
Heights == {1}
BadObject == "{\"info\":1}"
ResultValues == {"\"deadbeef\"", BadObject} \cup {TipObject(h) : h \in Heights}
WireResults == {None, "null"} \cup ResultValues

\* "error" member of an upstream text frame
ErrorObject == "{\"code\":1,\"message\":\"bad\"}"
ErrorString == "\"boom\""
WireErrors == {None, ErrorObject, ErrorString}


(***************************************************************************)
(* State.                                                                  *)
(***************************************************************************)
VARIABLES
  ID_COUNTER,    \* static ID_COUNTER: AtomicU32
  callbacks,     \* per slot, the Callbacks map: id -> owner of the oneshot sender
  queue,         \* per slot, the unbounded channel ws_tx -> ws_rx_stream
  conn,          \* per slot, the state of the client loop of try_new_client
  index,         \* per slot, the client's index into the endpoint list
  sender,        \* per slot, the sender task of the present connection
  stale,         \* per slot, the sender tasks of earlier connections still alive
  cache,         \* the moka cache: cache key -> R
  block_height,  \* the poller's AtomicU64
  pc,            \* per task, its position in the handler / handle_request
  slot,          \* per task, the slot chosen by random_callback
  kind,          \* per task, what it runs: handle_request or handle_health
  method,        \* per task, the method of its call
  params,        \* per task, the params of its call
  id,            \* per task, the id returned by get_next_id
  rx,            \* per task, the state of its oneshot channel (response_rx)
  ret,           \* per task, the R returned by handle_request
  history,       \* history: the values returned by get_next_id, in order
  input,         \* history: per task, the raw params of its HTTP request
  upstream       \* per slot, the requests the upstream has read from the open
                 \* connection and not answered

vars == <<ID_COUNTER, callbacks, queue, conn, index, sender, stale, cache,
          block_height, pc, slot, kind, method, params, id, rx, ret, history,
          input, upstream>>

procVars == <<pc, slot, kind, method, params, id, rx, ret>>

clientVars == <<conn, index, sender, stale>>

recordVars == <<history, input, upstream>>

(***************************************************************************)
(* struct R and its constructors.                                          *)
(***************************************************************************)
R_ok(payload) ==
  [success |-> TRUE, response |-> payload, code |-> None, message |-> None,
   health |-> None]

R_error(code, message) ==
  [success |-> FALSE, response |-> None, code |-> code, message |-> message,
   health |-> None]

\* the value of ret before handle_request has returned
NoR == [success |-> FALSE, response |-> None, code |-> None, message |-> None,
        health |-> None]

\* R::health, lines 105-113
R_health(health) ==
  [success |-> TRUE, response |-> None, code |-> None, message |-> None,
   health |-> IF health THEN "true" ELSE "false"]

TimeoutR == R_error("-1", "\"Response timeout\"")
NoResponseR == R_error("-1", "\"No response\"")

(***************************************************************************)
(* serde_json helpers, by table over the values of the model.              *)
(***************************************************************************)
\* Value::is_object / as_object().is_some()
IsObject(v) == v \in {BadObject, ErrorObject} \cup
                     {TipObject(h) : h \in Heights}

\* Map::get on an object value; None when the member is missing
ObjGet(v, k) ==
  CASE v = ErrorObject /\ k = "code" -> "1"
    [] v = ErrorObject /\ k = "message" -> "\"bad\""
    [] OTHER -> None

\* v["global"]["height"].as_u64(); -1 when one of the unwraps fails
HeightOf(v) == IF v = TipObject(1) THEN 1 ELSE IF v = TipObject(2) THEN 2 ELSE -1

\* Deserialize for Option<Value>: a missing member and null both give None
OptionFromWire(member) == IF member \in {None, "null"} THEN None ELSE member

\* struct JsonRpcResponse as parsed from a text frame
JsonRpcResponse(i, wire) ==
  [id |-> i, result |-> OptionFromWire(wire.result),
   error |-> OptionFromWire(wire.error)]

\* the result and error members of the text frames that parse as
\* JsonRpcResponse
WireContents ==
  [result : WireResults, error : {None}] \cup
  [result : {None}, error : WireErrors] \cup
  [result : {"\"deadbeef\""}, error : {ErrorObject}]

\* struct JsonRpcRequest
JsonRpcRequest(i, m, ps) == [id |-> i, method |-> m, params |-> ps]

(***************************************************************************)
(* The oneshot channel of a call.                                          *)
(***************************************************************************)
RxUnused == [st |-> "unused", result |-> None, error |-> None]
RxEmpty == [st |-> "empty", result |-> None, error |-> None]
RxClosed == [st |-> "closed", result |-> None, error |-> None]
RxTaken == [st |-> "taken", result |-> None, error |-> None]
RxReady(rep) == [st |-> "ready", result |-> rep.result, error |-> rep.error]

\* the receiver half is alive and will be polled
Listening(p) == pc[p] \in {"wait", "health_wait"}

\* a registry entry whose receiver half is gone: the future that owned it
\* was dropped
Orphan == "<orphan>"

\* dropping the sender of q's channel without a value
DropSender(q) ==
  IF q \in Procs /\ Listening(q) /\ rx[q].st = "empty" THEN {q} ELSE {}

(***************************************************************************)
(* cache::to_cache_key: a fingerprint of (method, params), equal inputs    *)
(* giving equal keys and different inputs different keys.                  *)
(***************************************************************************)
to_cache_key(m, ps) == <<m, ps>>

\* line 213 (use_cache_always: every method is cached)
use_cache_always(m) == TRUE

use_cache(m) == m # GetGlobal

\* Cache::get: the entry, or NoR when there is none (cache_get_miss: a cache
\* that never finds an entry)
cache_get_miss(c, key) == NoR

cache_get(c, key) == IF key \in DOMAIN c THEN c[key] ELSE NoR

\* Cache::insert
cache_insert(c, key, r) ==
  [k \in DOMAIN c \cup {key} |-> IF k = key THEN r ELSE c[k]]

EmptyCache == [k \in {} |-> NoR]

(***************************************************************************)
(* get_next_id, lines 119-125: load, store and fetch_add are three atomic  *)
(* operations on ID_COUNTER.                                               *)
(***************************************************************************)
\* line 121: the comparison that decides whether line 122 runs
\* (counter_at_max_never: the counter is left to wrap by itself)
counter_at_max_never(c) == FALSE

counter_at_max(c) == c = U32_MAX

\* line 124: AtomicU32::fetch_add(1) wraps around on overflow
\* (fetch_add_nothing: the counter is left as it is)
fetch_add_nothing(c) == c

fetch_add(c) == (c + 1) % IdModulus

get_next_id_load(p) ==
  /\ pc[p] = "get_next_id"
  /\ pc' = [pc EXCEPT ![p] = IF counter_at_max(ID_COUNTER) THEN "store"
                                                           ELSE "fetch_add"]
  /\ UNCHANGED <<ID_COUNTER, callbacks, queue, clientVars, cache, block_height,
                 slot, kind, method, params, id, rx, ret>>

get_next_id_store(p) ==
  /\ pc[p] = "store"
  /\ ID_COUNTER' = 0
  /\ pc' = [pc EXCEPT ![p] = "fetch_add"]
  /\ UNCHANGED <<callbacks, queue, clientVars, cache, block_height,
                 slot, kind, method, params, id, rx, ret>>

get_next_id_fetch_add(p) ==
  /\ pc[p] = "fetch_add"
  /\ id' = [id EXCEPT ![p] = ID_COUNTER]
  /\ ID_COUNTER' = fetch_add(ID_COUNTER)
  /\ pc' = [pc EXCEPT ![p] = IF kind[p] = "health" THEN "health_dispatch"
                                                    ELSE "lookup"]
  /\ UNCHANGED <<callbacks, queue, clientVars, cache, block_height,
                 slot, kind, method, params, rx, ret>>


(***************************************************************************)
(* HTTP surface: handle_get (lines 147-169), handle_post (lines 179-200).  *)
(***************************************************************************)
\* the value of the "params" query argument of a GET, None when it is absent
QueryValues == {None, "", "[]", "[\"100\"]", "{\"a\":1}", "oops"}

\* the "params" member of a POST body: NoBody when there is no body, None when
\* the body has no such member, else the member's JSON text
NoBody == "<no body>"
BodyValues == {NoBody, None, "[]", "[\"100\"]", "\"[]\"", "{\"a\":1}"}

\* serde_json::from_str::<Vec<Value>>(x): the array, or None for Err
\* (from_str_lenient: anything that is no array is read as [])
from_str_lenient(x) == IF x \in ParamArrays THEN x ELSE NoParams

from_str(x) == IF x \in ParamArrays THEN x ELSE None

\* Value::as_array(): the array, or None
as_array(v) == IF v \in ParamArrays THEN v ELSE None

\* lines 157-167: the params handle_get passes on; None when an unwrap panics
get_params(q) ==
  IF q = None THEN NoParams
  ELSE from_str(IF q = "" THEN "[]" ELSE q)

\* lines 189-198: the params handle_post passes on; None when the unwrap panics
post_params(b) ==
  IF b = NoBody \/ b = None THEN NoParams ELSE as_array(b)

\* task q has chosen its slot and not yet enqueued its request
Heading(q) ==
  pc[q] \in {"get_next_id", "store", "fetch_add", "lookup", "dispatch",
            "health_dispatch"}

\* lines 171-177: the indices random_callback may return for the vector calls
random_callback(calls) == calls

\* the raw params of a request, for the record
NoInput == [kind |-> "none", value |-> None]
GetInput(q) == [kind |-> "GET", value |-> q]
PostInput(b) == [kind |-> "POST", value |-> b]

\* a new request may be admitted to slot s (bound of the model)
Admit(s) ==
  Len(queue[s]) + Cardinality({q \in Procs : slot[q] = s /\ Heading(q)})
    < MaxQueue

\* entry into handle_request with (method, params) on slot s, or the panic of
\* the handler before that when ps is None
Enter(p, s, m, ps) ==
  /\ slot' = [slot EXCEPT ![p] = s]
  /\ kind' = [kind EXCEPT ![p] = "request"]
  /\ method' = [method EXCEPT ![p] = m]
  /\ IF ps = None
       THEN /\ pc' = [pc EXCEPT ![p] = "panicked"]
            /\ params' = [params EXCEPT ![p] = NoParams]
       ELSE /\ pc' = [pc EXCEPT ![p] = "get_next_id"]
            /\ params' = [params EXCEPT ![p] = ps]
  /\ UNCHANGED <<ID_COUNTER, callbacks, queue, clientVars, cache, block_height,
                 id, rx, ret>>

handle_get(p, calls, q) ==
  /\ p \in Handlers
  /\ pc[p] = "idle"
  /\ \E s \in random_callback(calls), m \in Methods :
       Admit(s) /\ Enter(p, s, m, get_params(q))

handle_post(p, calls, b) ==
  /\ p \in Handlers
  /\ pc[p] = "idle"
  /\ \E s \in random_callback(calls), m \in Methods :
       Admit(s) /\ Enter(p, s, m, post_params(b))

\* the response has been written (or the panic caught by CatchPanicLayer): the
\* handler task ends and its name is free for the next request
handler_return(p) ==
  /\ p \in Handlers
  /\ pc[p] \in {"done", "panicked"}
  /\ pc' = [pc EXCEPT ![p] = "idle"]
  /\ slot' = [slot EXCEPT ![p] = 0]
  /\ kind' = [kind EXCEPT ![p] = "request"]
  /\ method' = [method EXCEPT ![p] = GetGlobal]
  /\ params' = [params EXCEPT ![p] = NoParams]
  /\ id' = [id EXCEPT ![p] = 0]
  /\ rx' = [rx EXCEPT ![p] = RxUnused]
  /\ ret' = [ret EXCEPT ![p] = NoR]
  /\ UNCHANGED <<ID_COUNTER, callbacks, queue, clientVars, cache, block_height>>

(***************************************************************************)
(* handle_request, lines 202-263, after get_next_id.                       *)
(***************************************************************************)
Key(p) == to_cache_key(method[p], params[p])

\* lines 214-223: cache lookup; a hit returns the cached R
handle_request_lookup(p) ==
  /\ pc[p] = "lookup"
  /\ LET v == IF use_cache(method[p]) THEN cache_get(cache, Key(p)) ELSE NoR
     IN  IF v # NoR
           THEN /\ ret' = [ret EXCEPT ![p] = v]
                /\ pc' = [pc EXCEPT ![p] = "done"]
           ELSE /\ pc' = [pc EXCEPT ![p] = "dispatch"]
                /\ UNCHANGED ret
  /\ UNCHANGED <<ID_COUNTER, callbacks, queue, clientVars, cache, block_height,
                 slot, kind, method, params, id, rx>>

\* HashMap::insert: the previous sender under the same id, if any, is dropped
registry_insert(reg, i, p) == [reg EXCEPT ![i] = p]

\* HashMap::remove (registry_remove_nothing: the entry is left in the map)
registry_remove_nothing(reg, i) == reg

registry_remove(reg, i) == [reg EXCEPT ![i] = None]

\* lines 225-230: oneshot::channel(); callbacks.write().await.insert(id, tx);
\* ws_tx.send(request).  Nothing is awaited between the insert and the send;
\* the receiver half of ws_tx lives as long as the client task, so the send
\* does not fail
handle_request_dispatch(p) ==
  /\ pc[p] = "dispatch"
  /\ LET old == callbacks[slot[p]][id[p]]
     IN  /\ callbacks' = [callbacks EXCEPT
                            ![slot[p]] = registry_insert(@, id[p], p)]
         /\ rx' = [q \in Procs |->
                     IF q = p THEN RxEmpty
                     ELSE IF q \in DropSender(old) THEN RxClosed
                     ELSE rx[q]]
  /\ queue' = [queue EXCEPT ![slot[p]] =
                 Append(@, JsonRpcRequest(id[p], method[p], params[p]))]
  /\ pc' = [pc EXCEPT ![p] = "wait"]
  /\ UNCHANGED <<ID_COUNTER, clientVars, cache, block_height,
                 slot, kind, method, params, id, ret>>

\* lines 233-250: the R made from a delivered response; NoR when
\* err.as_object().unwrap() panics (outcome_error_as_no_response: the error
\* object is not looked at)
outcome_error_as_no_response(rep) ==
  IF rep.result # None THEN R_ok(rep.result) ELSE NoResponseR

outcome(rep) ==
  IF rep.result # None THEN R_ok(rep.result)
  ELSE IF rep.error # None
    THEN IF IsObject(rep.error)
           THEN [success |-> FALSE, response |-> None,
                 code |-> ObjGet(rep.error, "code"),
                 message |-> ObjGet(rep.error, "message"), health |-> None]
           ELSE NoR
    ELSE NoResponseR

\* line 240 panics on this response
outcome_panics(rep) ==
  rep.result = None /\ rep.error # None /\ ~IsObject(rep.error)

\* lines 235-237: the cache after a response with a result
insert_if_cacheable(c, m, key, r) ==
  IF r.success /\ use_cache(m) THEN cache_insert(c, key, r) ELSE c

\* lines 231-251, arm Ok(Ok(rep))
handle_request_complete(p) ==
  /\ pc[p] = "wait"
  /\ rx[p].st = "ready"
  /\ rx' = [rx EXCEPT ![p] = RxTaken]
  /\ IF outcome_panics(rx[p])
       THEN /\ pc' = [pc EXCEPT ![p] = "panicked"]
            /\ UNCHANGED <<ret, cache>>
       ELSE LET r == outcome(rx[p])
            IN  /\ ret' = [ret EXCEPT ![p] = r]
                /\ cache' = insert_if_cacheable(cache, method[p], Key(p), r)
                /\ pc' = [pc EXCEPT ![p] = "done"]
  /\ UNCHANGED <<ID_COUNTER, callbacks, queue, clientVars, block_height,
                 slot, kind, method, params, id>>

\* line 231 and arm Ok(Err(_)) | Err(_) of line 252: the deadline elapsed with
\* nothing in the channel, or the sender was dropped
handle_request_timeout(p) ==
  /\ pc[p] = "wait"
  /\ rx[p].st \in {"empty", "closed"}
  /\ pc' = [pc EXCEPT ![p] = "cleanup"]
  /\ UNCHANGED <<ID_COUNTER, callbacks, queue, clientVars, cache, block_height,
                 slot, kind, method, params, id, rx, ret>>

\* lines 257-260: callbacks.write().await.remove(&id); the R returned
handle_request_cleanup(p) ==
  /\ pc[p] = "cleanup"
  /\ LET old == callbacks[slot[p]][id[p]]
     IN  /\ callbacks' = [callbacks EXCEPT
                            ![slot[p]] = registry_remove(@, id[p])]
         /\ rx' = [q \in Procs |->
                     IF q # p /\ q \in DropSender(old) THEN RxClosed ELSE rx[q]]
  /\ ret' = [ret EXCEPT ![p] = TimeoutR]
  /\ pc' = [pc EXCEPT ![p] = "done"]
  /\ UNCHANGED <<ID_COUNTER, queue, clientVars, cache, block_height,
                 slot, kind, method, params, id>>


(***************************************************************************)
(* handle_health, lines 265-297.                                           *)
(***************************************************************************)
\* lines 269-270: get_next_id() is called, then random_callback; the slot is
\* drawn here, the draw depending on nothing the program does
handle_health(p, calls) ==
  /\ p \in Handlers
  /\ pc[p] = "idle"
  /\ \E s \in random_callback(calls) :
       /\ Admit(s)
       /\ slot' = [slot EXCEPT ![p] = s]
  /\ kind' = [kind EXCEPT ![p] = "health"]
  /\ method' = [method EXCEPT ![p] = GetGlobal]
  /\ params' = [params EXCEPT ![p] = NoParams]
  /\ pc' = [pc EXCEPT ![p] = "get_next_id"]
  /\ UNCHANGED <<ID_COUNTER, callbacks, queue, clientVars, cache, block_height,
                 id, rx, ret>>

\* lines 274-283: oneshot::channel(); item.1.write().await.insert(id, tx);
\* item.0.send(request)
handle_health_dispatch(p) ==
  /\ pc[p] = "health_dispatch"
  /\ LET old == callbacks[slot[p]][id[p]]
     IN  /\ callbacks' = [callbacks EXCEPT
                            ![slot[p]] = registry_insert(@, id[p], p)]
         /\ rx' = [q \in Procs |->
                     IF q = p THEN RxEmpty
                     ELSE IF q \in DropSender(old) THEN RxClosed
                     ELSE rx[q]]
  /\ queue' = [queue EXCEPT ![slot[p]] =
                 Append(@, JsonRpcRequest(id[p], GetGlobal, NoParams))]
  /\ pc' = [pc EXCEPT ![p] = "health_wait"]
  /\ UNCHANGED <<ID_COUNTER, clientVars, cache, block_height,
                 slot, kind, method, params, id, ret>>

\* line 285: rep.result.is_some() (health_of_any: every response counts)
health_of_any(rep) == TRUE

health_of(rep) == rep.result # None

\* lines 284-285, arm Ok(Ok(rep))
handle_health_complete(p) ==
  /\ pc[p] = "health_wait"
  /\ rx[p].st = "ready"
  /\ rx' = [rx EXCEPT ![p] = RxTaken]
  /\ ret' = [ret EXCEPT ![p] = R_health(health_of(rx[p]))]
  /\ pc' = [pc EXCEPT ![p] = "done"]
  /\ UNCHANGED <<ID_COUNTER, callbacks, queue, clientVars, cache, block_height,
                 slot, kind, method, params, id>>

\* line 284 and arm Ok(Err(_)) | Err(_) of line 286: the 5 s have elapsed with
\* nothing in the channel, or the sender was dropped
handle_health_timeout(p) ==
  /\ pc[p] = "health_wait"
  /\ rx[p].st \in {"empty", "closed"}
  /\ pc' = [pc EXCEPT ![p] = "health_cleanup"]
  /\ UNCHANGED <<ID_COUNTER, callbacks, queue, clientVars, cache, block_height,
                 slot, kind, method, params, id, rx, ret>>

\* lines 291-294: item.1.write().await.remove(&id); R::health(false)
handle_health_cleanup(p) ==
  /\ pc[p] = "health_cleanup"
  /\ LET old == callbacks[slot[p]][id[p]]
     IN  /\ callbacks' = [callbacks EXCEPT
                            ![slot[p]] = registry_remove(@, id[p])]
         /\ rx' = [q \in Procs |->
                     IF q # p /\ q \in DropSender(old) THEN RxClosed ELSE rx[q]]
  /\ ret' = [ret EXCEPT ![p] = R_health(FALSE)]
  /\ pc' = [pc EXCEPT ![p] = "done"]
  /\ UNCHANGED <<ID_COUNTER, queue, clientVars, cache, block_height,
                 slot, kind, method, params, id>>

\* a step of a task that runs handle_health
HealthStep(p, calls) ==
  \/ handle_health(p, calls)
  \/ handle_health_dispatch(p)
  \/ handle_health_complete(p)
  \/ handle_health_timeout(p)
  \/ handle_health_cleanup(p)

(***************************************************************************)
(* A handler future dropped at its await on response_rx (lines 231, 284):  *)
(* the HTTP client has gone and the server drops the request's future.     *)
(* Nothing of the function runs any more; the receiver half of the channel *)
(* is dropped with it, the sender half stays where it is.                  *)
(***************************************************************************)
handler_cancelled(p) ==
  /\ p \in Handlers
  /\ pc[p] \in {"wait", "health_wait"}
  /\ callbacks' = [callbacks EXCEPT ![slot[p]] =
                     [i \in Ids |-> IF @[i] = p THEN Orphan ELSE @[i]]]
  /\ pc' = [pc EXCEPT ![p] = "idle"]
  /\ slot' = [slot EXCEPT ![p] = 0]
  /\ kind' = [kind EXCEPT ![p] = "request"]
  /\ method' = [method EXCEPT ![p] = GetGlobal]
  /\ params' = [params EXCEPT ![p] = NoParams]
  /\ id' = [id EXCEPT ![p] = 0]
  /\ rx' = [rx EXCEPT ![p] = RxUnused]
  /\ ret' = [ret EXCEPT ![p] = NoR]
  /\ UNCHANGED <<ID_COUNTER, queue, clientVars, cache, block_height>>

(***************************************************************************)
(* The tip poller, lines 387-426.                                          *)
(***************************************************************************)
\* lines 389-398: random_callback, then handle_request for the tip method
poller_start(p, calls) ==
  /\ p = Poller
  /\ pc[p] = "idle"
  /\ \E s \in random_callback(calls) : Admit(s) /\ Enter(p, s, GetGlobal, NoParams)

\* lines 413-421: the height stored after a poll that read height h; the
\* invalidation of the cache is commented out in the source
observe_height(bh, h) == IF bh # h THEN h ELSE bh

\* lines 400-424: the poll result is examined, then the task sleeps 10 s; an
\* unwrap that fails ends the task
poller_finish(p) ==
  /\ p = Poller
  /\ pc[p] = "done"
  /\ LET v == ret[p].response
     IN  IF v # None /\ IsObject(v) /\ HeightOf(v) = -1
           THEN /\ pc' = [pc EXCEPT ![p] = "panicked"]
                /\ UNCHANGED <<block_height, slot, kind, method, params, id, rx, ret>>
           ELSE /\ block_height' = IF v # None /\ IsObject(v)
                                     THEN observe_height(block_height, HeightOf(v))
                                     ELSE block_height
                /\ pc' = [pc EXCEPT ![p] = "idle"]
                /\ slot' = [slot EXCEPT ![p] = 0]
                /\ kind' = [kind EXCEPT ![p] = "request"]
                /\ method' = [method EXCEPT ![p] = GetGlobal]
                /\ params' = [params EXCEPT ![p] = NoParams]
                /\ id' = [id EXCEPT ![p] = 0]
                /\ rx' = [rx EXCEPT ![p] = RxUnused]
                /\ ret' = [ret EXCEPT ![p] = NoR]
  /\ UNCHANGED <<ID_COUNTER, callbacks, queue, clientVars, cache>>

(***************************************************************************)
(* The result cache's own behaviour (moka): entries expire (time to live,  *)
(* time to idle) or are evicted at capacity.                               *)
(***************************************************************************)
cache_evict ==
  /\ \E k \in DOMAIN cache :
       cache' = [j \in DOMAIN cache \ {k} |-> cache[j]]
  /\ UNCHANGED <<ID_COUNTER, callbacks, queue, clientVars, block_height, procVars>>

(***************************************************************************)
(* The upstream client of a slot, try_new_client, lines 450-517.           *)
(*                                                                         *)
(* The sender task of a connection (lines 467-476) holds the lock on       *)
(* ws_rx_stream while it runs; the lock is handed out in the order it was  *)
(* asked for, so the sender tasks left over from earlier connections come  *)
(* before the sender task of the present one.                              *)
(***************************************************************************)
\* lines 510-514: the index of the endpoint tried next (next_index_same: the
\* client stays on the endpoint it has)
next_index_same(i, list) == i

next_index(i, list) == IF i >= Len(list) - 1 THEN 0 ELSE i + 1

\* line 462, arm Ok: the connection is open and its sender task spawned; the
\* task runs once it has the lock on ws_rx_stream
client_connect(s) ==
  /\ conn[s] = "Connecting"
  /\ conn' = [conn EXCEPT ![s] = "Open"]
  /\ sender' = [sender EXCEPT ![s] = IF stale[s] = 0 THEN "running"
                                                     ELSE "waiting"]
  /\ UNCHANGED <<ID_COUNTER, callbacks, queue, index, stale, cache,
                 block_height, procVars>>

\* line 462, arm Err (lines 505-508), then lines 510-514
client_connect_failed(s, list) ==
  /\ conn[s] = "Connecting"
  /\ index' = [index EXCEPT ![s] = next_index(@, list)]
  /\ UNCHANGED <<ID_COUNTER, callbacks, queue, conn, sender, stale, cache,
                 block_height, procVars>>

\* (client_disconnect_fail_fast: a disconnect that also empties the registry
\* of the slot, dropping the senders in it)
client_disconnect_fail_fast(s, list) ==
  /\ conn[s] = "Open"
  /\ conn' = [conn EXCEPT ![s] = "Connecting"]
  /\ sender' = [sender EXCEPT ![s] = "none"]
  /\ index' = [index EXCEPT ![s] = (@ + 1) % Len(list)]
  /\ callbacks' = [callbacks EXCEPT ![s] = [i \in Ids |-> None]]
  /\ rx' = [q \in Procs |->
              IF \E i \in Ids : q \in DropSender(callbacks[s][i])
                THEN RxClosed ELSE rx[q]]
  /\ UNCHANGED <<ID_COUNTER, queue, stale, cache, block_height,
                 pc, slot, kind, method, params, id, ret>>

\* lines 495-502: a close frame ends the receive loop; the sender task is
\* aborted unless it has finished; then lines 510-514
client_disconnect(s, list) ==
  /\ conn[s] = "Open"
  /\ conn' = [conn EXCEPT ![s] = "Connecting"]
  /\ sender' = [sender EXCEPT ![s] = "none"]
  /\ index' = [index EXCEPT ![s] = next_index(@, list)]
  /\ UNCHANGED <<ID_COUNTER, callbacks, queue, stale, cache, block_height,
                 procVars>>

\* line 477: read.next() gives None or Some(Err(_)) and the receive loop ends
\* without send_handle.abort(); the sender task lives on; then lines 510-514
client_read_end(s, list) ==
  /\ conn[s] = "Open"
  /\ sender[s] = "finished" \/ stale[s] < MaxStale
  /\ conn' = [conn EXCEPT ![s] = "Connecting"]
  /\ stale' = [stale EXCEPT ![s] = IF sender[s] = "finished" THEN @ ELSE @ + 1]
  /\ sender' = [sender EXCEPT ![s] = "none"]
  /\ index' = [index EXCEPT ![s] = next_index(@, list)]
  /\ UNCHANGED <<ID_COUNTER, callbacks, queue, cache, block_height, procVars>>

\* lines 469-471: the sender task of the open connection takes the next
\* request and writes it
sender_write(s) ==
  /\ conn[s] = "Open"
  /\ sender[s] = "running"
  /\ queue[s] # <<>>
  /\ queue' = [queue EXCEPT ![s] = Tail(@)]
  /\ UNCHANGED <<ID_COUNTER, callbacks, clientVars, cache, block_height,
                 procVars>>

\* lines 469-474: the write fails; the request taken is gone and the sender
\* task ends, the receive loop goes on
sender_write_failed(s) ==
  /\ conn[s] = "Open"
  /\ sender[s] = "running"
  /\ queue[s] # <<>>
  /\ queue' = [queue EXCEPT ![s] = Tail(@)]
  /\ sender' = [sender EXCEPT ![s] = "finished"]
  /\ UNCHANGED <<ID_COUNTER, callbacks, conn, index, stale, cache,
                 block_height, procVars>>

\* lines 469-474, in the sender task of an earlier connection, which still
\* holds the lock: it takes the next request and writes it to the socket of
\* that connection; if the write reports an error the task ends and the lock
\* passes on
stale_sender_write(s) ==
  /\ stale[s] > 0
  /\ queue[s] # <<>>
  /\ queue' = [queue EXCEPT ![s] = Tail(@)]
  /\ \E ended \in BOOLEAN :
       /\ stale' = [stale EXCEPT ![s] = IF ended THEN @ - 1 ELSE @]
       /\ sender' = [sender EXCEPT ![s] =
                       IF ended /\ stale[s] = 1 /\ @ = "waiting" THEN "running"
                                                                 ELSE @]
  /\ UNCHANGED <<ID_COUNTER, callbacks, conn, index, cache, block_height,
                 procVars>>

\* the contents worth telling apart in a frame whose id is registered to
\* owner: all of them when a task will read the response, one otherwise
Delivered(owner) ==
  IF owner \in Procs /\ Listening(owner) /\ rx[owner].st = "empty"
    THEN WireContents
    ELSE {[result |-> None, error |-> None]}

\* lines 480-490: the frame parsed as resp; the entry under its id, if there
\* is one, is removed from this slot's registry and resp sent on its channel
receiver_frame(s, resp) ==
  /\ conn[s] = "Open"
  /\ LET owner == callbacks[s][resp.id]
     IN  /\ callbacks' = [callbacks EXCEPT ![s] = registry_remove(@, resp.id)]
         /\ rx' = [q \in Procs |->
                     IF q = owner /\ Listening(q) /\ rx[q].st = "empty"
                       THEN RxReady(resp) ELSE rx[q]]
  /\ UNCHANGED <<ID_COUNTER, queue, clientVars, cache, block_height,
                 pc, slot, kind, method, params, id, ret>>

\* lines 478-490: a text frame that parses as JsonRpcResponse, whatever its
\* id and contents
receiver_response(s) ==
  \E i \in Ids : \E wire \in Delivered(callbacks[s][i]) :
    receiver_frame(s, JsonRpcResponse(i, wire))

\* lines 478-502: a frame that is neither text nor close, or a text frame that
\* does not parse as JsonRpcResponse (line 492), is passed over
receiver_ignored(s) ==
  /\ conn[s] = "Open"
  /\ UNCHANGED <<ID_COUNTER, callbacks, queue, clientVars, cache, block_height,
                 procVars>>

(***************************************************************************)
(* Initial state and next-state relation.                                  *)
(***************************************************************************)
Init ==
  /\ ID_COUNTER = 0
  /\ callbacks = [s \in Slots |-> [i \in Ids |-> None]]
  /\ queue = [s \in Slots |-> <<>>]
  /\ conn = [s \in Slots |-> "Connecting"]
  /\ index = [s \in Slots |-> 0]
  /\ sender = [s \in Slots |-> "none"]
  /\ stale = [s \in Slots |-> 0]
  /\ cache = EmptyCache
  /\ block_height = 0
  /\ pc = [p \in Procs |-> "idle"]
  /\ slot = [p \in Procs |-> 0]
  /\ kind = [p \in Procs |-> "request"]
  /\ method = [p \in Procs |-> GetGlobal]
  /\ params = [p \in Procs |-> NoParams]
  /\ id = [p \in Procs |-> 0]
  /\ rx = [p \in Procs |-> RxUnused]
  /\ ret = [p \in Procs |-> NoR]
  /\ history = <<>>
  /\ input = [p \in Procs |-> NoInput]
  /\ upstream = [s \in Slots |-> {}]

\* a step of task p, which was given the vector calls of slots (lines 350-355,
\* 384, 389); queries and bodies are the params its HTTP requests may carry
TaskStep(p, calls, queries, bodies) ==
  \/ \E q \in queries : handle_get(p, calls, q)
  \/ \E b \in bodies : handle_post(p, calls, b)
  \/ poller_start(p, calls)
  \/ get_next_id_load(p)
  \/ get_next_id_store(p)
  \/ get_next_id_fetch_add(p)
  \/ handle_request_lookup(p)
  \/ handle_request_dispatch(p)
  \/ handle_request_complete(p)
  \/ handle_request_timeout(p)
  \/ handle_request_cleanup(p)
  \/ handler_return(p)
  \/ poller_finish(p)
  \/ HealthStep(p, calls)

\* a step of the client of slot s, which was given the endpoint list
\* (ELECTRUMX_WSS, line 456)
ClientStep(s, list) ==
  \/ client_connect(s)
  \/ client_connect_failed(s, list)
  \/ client_disconnect(s, list)
  \/ client_read_end(s, list)
  \/ sender_write(s)
  \/ sender_write_failed(s)
  \/ stale_sender_write(s)
  \/ receiver_response(s)
  \/ receiver_ignored(s)

\* the client of slot s while every session ends by a close frame and every
\* write succeeds
SteadyClientStep(s, list) ==
  \/ client_connect(s)
  \/ client_connect_failed(s, list)
  \/ client_disconnect(s, list)
  \/ sender_write(s)
  \/ receiver_response(s)
  \/ receiver_ignored(s)

\* ELECTRUMX_WSS with one endpoint and with three
OneEndpoint == <<"wss://a">>
Endpoints == <<"wss://a", "wss://b", "wss://c">>

\* the proxy run with one upstream instance (ELECTRUMX_WS_INSTANCE = 1), one
\* HTTP request at a time beside the tip poller, the requests without params
\* or with params that are no array
OneInstance == {0}
MainTasks == {"h1", Poller}
MainQueries == {None, "", "[]", "oops"}
MainBodies == {NoBody, None, "[]", "\"[]\""}

Next ==
  \/ \E p \in MainTasks : TaskStep(p, OneInstance, MainQueries, MainBodies)
                            /\ UNCHANGED recordVars
  \/ \E s \in OneInstance : ClientStep(s, OneEndpoint) /\ UNCHANGED recordVars
  \/ cache_evict /\ UNCHANGED recordVars

Spec == Init /\ [][Next]_vars

(***************************************************************************)
(* A burst of concurrent calls on the whole pool: every task makes one     *)
(* call, at any time in the life of the process (the counter has any       *)
(* value); the upstream sessions end by close frames.                      *)
(***************************************************************************)
InitBurst ==
  /\ ID_COUNTER \in Ids
  /\ callbacks = [s \in Slots |-> [i \in Ids |-> None]]
  /\ queue = [s \in Slots |-> <<>>]
  /\ conn = [s \in Slots |-> "Connecting"]
  /\ index = [s \in Slots |-> 0]
  /\ sender = [s \in Slots |-> "none"]
  /\ stale = [s \in Slots |-> 0]
  /\ cache = EmptyCache
  /\ block_height = 0
  /\ pc = [p \in Procs |-> "idle"]
  /\ slot = [p \in Procs |-> 0]
  /\ kind = [p \in Procs |-> "request"]
  /\ method = [p \in Procs |-> GetGlobal]
  /\ params = [p \in Procs |-> NoParams]
  /\ id = [p \in Procs |-> 0]
  /\ rx = [p \in Procs |-> RxUnused]
  /\ ret = [p \in Procs |-> NoR]
  /\ history = <<>>
  /\ input = [p \in Procs |-> NoInput]
  /\ upstream = [s \in Slots |-> {}]

BurstStep(p, calls) ==
  \/ \E q \in QueryValues : handle_get(p, calls, q)
  \/ \E b \in BodyValues : handle_post(p, calls, b)
  \/ poller_start(p, calls)
  \/ get_next_id_load(p)
  \/ get_next_id_store(p)
  \/ get_next_id_fetch_add(p)
  \/ handle_request_lookup(p)
  \/ handle_request_dispatch(p)
  \/ handle_request_complete(p)
  \/ handle_request_timeout(p)
  \/ handle_request_cleanup(p)

NextBurst ==
  \/ \E p \in MainTasks : BurstStep(p, Slots) /\ UNCHANGED recordVars
  \/ \E s \in Slots : SteadyClientStep(s, OneEndpoint) /\ UNCHANGED recordVars

SpecBurst == InitBurst /\ [][NextBurst]_vars

(***************************************************************************)
(* The id allocator alone: tasks that call get_next_id (lines 210 and 269) *)
(* again and again; history keeps the values returned, oldest first.       *)
(***************************************************************************)
HistLen == 2 * IdModulus

Record(h, v) == IF Len(h) < HistLen THEN Append(h, v) ELSE Append(Tail(h), v)

InGetNextId(q) == pc[q] \in {"get_next_id", "store", "fetch_add"}

\* a task calls get_next_id
alloc_call(p) ==
  /\ pc[p] = "idle"
  /\ pc' = [pc EXCEPT ![p] = "get_next_id"]
  /\ UNCHANGED <<ID_COUNTER, callbacks, queue, clientVars, cache, block_height,
                 slot, kind, method, params, id, rx, ret>>

\* the task has used the id
alloc_return(p) ==
  /\ pc[p] = "lookup"
  /\ pc' = [pc EXCEPT ![p] = "idle"]
  /\ id' = [id EXCEPT ![p] = 0]
  /\ UNCHANGED <<ID_COUNTER, callbacks, queue, clientVars, cache, block_height,
                 slot, kind, method, params, rx, ret>>

AllocStep(p) ==
  \/ get_next_id_load(p) /\ UNCHANGED recordVars
  \/ get_next_id_store(p) /\ UNCHANGED recordVars
  \/ get_next_id_fetch_add(p) /\ history' = Record(history, id'[p])
                              /\ UNCHANGED <<input, upstream>>
  \/ alloc_return(p) /\ UNCHANGED recordVars

\* sequential calls: a call starts when no other call is in progress
NextSeq ==
  \E p \in Procs :
    \/ alloc_call(p) /\ (\A q \in Procs : ~InGetNextId(q)) /\ UNCHANGED recordVars
    \/ AllocStep(p)

SpecSeq == Init /\ [][NextSeq]_vars

\* concurrent calls: the steps of the calls interleave
NextConc ==
  \E p \in MainTasks :
    \/ alloc_call(p) /\ UNCHANGED recordVars
    \/ AllocStep(p)

SpecConc == Init /\ [][NextConc]_vars


(***************************************************************************)
(* The HTTP surface with one handler task and the raw params of each       *)
(* request on record.                                                      *)
(***************************************************************************)
HttpTasks == {"h1"}

HttpStep(p, calls) ==
  \/ \E q \in QueryValues :
       handle_get(p, calls, q) /\ input' = [input EXCEPT ![p] = GetInput(q)]
  \/ \E b \in BodyValues :
       handle_post(p, calls, b) /\ input' = [input EXCEPT ![p] = PostInput(b)]
  \/ handler_return(p) /\ input' = [input EXCEPT ![p] = NoInput]
  \/ /\ \/ get_next_id_load(p)
        \/ get_next_id_store(p)
        \/ get_next_id_fetch_add(p)
        \/ handle_request_lookup(p)
        \/ handle_request_dispatch(p)
        \/ handle_request_complete(p)
        \/ handle_request_timeout(p)
        \/ handle_request_cleanup(p)
     /\ UNCHANGED input

NextHttp ==
  \/ \E p \in HttpTasks : HttpStep(p, OneInstance)
                            /\ UNCHANGED <<history, upstream>>
  \/ \E s \in OneInstance : ClientStep(s, OneEndpoint) /\ UNCHANGED recordVars
  \/ cache_evict /\ UNCHANGED recordVars

SpecHttp == Init /\ [][NextHttp]_vars


(***************************************************************************)
(* The health endpoint: handler tasks that serve /proxy/health on the      *)
(* whole pool.                                                             *)
(***************************************************************************)
NextHealth ==
  \/ \E p \in Handlers : (HealthStep(p, Slots) \/ get_next_id_load(p)
                            \/ get_next_id_store(p) \/ get_next_id_fetch_add(p)
                            \/ handler_return(p))
                         /\ UNCHANGED recordVars
  \/ \E s \in Slots : SteadyClientStep(s, OneEndpoint)
                        /\ UNCHANGED recordVars

SpecHealth == Init /\ [][NextHealth]_vars

(***************************************************************************)
(* The upstream client of one slot with a list of three endpoints, beside  *)
(* one handler task whose requests carry no params.                        *)
(***************************************************************************)
NextClient ==
  \/ \E p \in HttpTasks : TaskStep(p, OneInstance, {None}, {NoBody})
                            /\ UNCHANGED recordVars
  \/ \E s \in OneInstance : ClientStep(s, Endpoints)
                              /\ UNCHANGED recordVars

SpecClient == Init /\ [][NextClient]_vars

(***************************************************************************)
(* One handler task whose HTTP client may go away while the request is     *)
(* waiting for its response.                                               *)
(***************************************************************************)
NextCancel ==
  \/ \E p \in HttpTasks : TaskStep(p, OneInstance, {None}, {NoBody})
                            /\ UNCHANGED recordVars
  \/ \E p \in HttpTasks : handler_cancelled(p) /\ UNCHANGED recordVars
  \/ \E s \in OneInstance : ClientStep(s, OneEndpoint)
                              /\ UNCHANGED recordVars

SpecCancel == Init /\ [][NextCancel]_vars

(***************************************************************************)
(* The proxy before its id counter has come round, with an upstream that   *)
(* answers the requests it has read: each with a frame that carries the    *)
(* request's id and the result of the request's method and params, or an   *)
(* error object.  Two handler tasks on the pool; the sessions end by close  *)
(* frames.                                                                 *)
(***************************************************************************)
\* the result the upstream gives for a request
UpstreamResult(m, ps) ==
  CASE m = GetGlobal /\ ps = "[]" -> "{\"global\":{\"height\":1}}"
    [] m = GetGlobal /\ ps # "[]" -> "{\"global\":{\"height\":2}}"
    [] m # GetGlobal /\ ps = "[]" -> "\"deadbeef\""
    [] OTHER -> "\"cafe\""

\* no call that may still start will find the counter at u32::MAX
NoWrap == ID_COUNTER + Cardinality({q \in Procs : InGetNextId(q)}) < U32_MAX

\* the upstream of slot s sends its answer to a request it has read
upstream_answer(s) ==
  \E f \in upstream[s] :
    /\ \E content \in {[result |-> UpstreamResult(f.method, f.params),
                        error |-> None],
                       [result |-> None, error |-> ErrorObject]} :
         receiver_frame(s, JsonRpcResponse(f.id, content))
    /\ upstream' = [upstream EXCEPT ![s] = @ \ {f}]

\* the first handler task draws its slot from the whole pool, the second is
\* always given slot 0
NoWrapCalls(p) == IF p = "h1" THEN Slots ELSE OneInstance

NextNoWrap ==
  \/ \E p \in Handlers :
       /\ pc[p] = "idle" => NoWrap
       /\ TaskStep(p, NoWrapCalls(p), {None, "[\"100\"]"}, {NoBody})
       /\ UNCHANGED recordVars
  \/ \E s \in Slots :
       /\ \/ client_connect(s)
          \/ client_connect_failed(s, OneEndpoint)
          \/ receiver_ignored(s)
       /\ UNCHANGED recordVars
  \/ \E s \in Slots :
       /\ sender_write(s)
       /\ upstream' = [upstream EXCEPT ![s] = @ \cup {Head(queue[s])}]
       /\ UNCHANGED <<history, input>>
  \/ \E s \in Slots :
       /\ client_disconnect(s, OneEndpoint)
       /\ upstream' = [upstream EXCEPT ![s] = {}]
       /\ UNCHANGED <<history, input>>
  \/ \E s \in Slots : upstream_answer(s) /\ UNCHANGED <<history, input>>

SpecNoWrap == Init /\ [][NextNoWrap]_vars

(***************************************************************************)
(* Properties.                                                             *)
(***************************************************************************)
\* task p has made a call that missed the cache and has ended
Terminated(p) == pc[p] \in {"done", "panicked"} /\ rx[p].st # "unused"

\* task p was dispatched and has not returned
InFlight(p) == pc[p] \in {"wait", "cleanup", "health_wait", "health_cleanup"}

\* C1: once a call that missed the cache has ended, by a response (with a
\* result, an error or neither), by the deadline or by its sender being
\* dropped, no registry holds the entry it inserted; in particular not the
\* registry of the slot it was dispatched to.
C1_RegistryCleanup ==
  \A p \in Procs :
    Terminated(p) =>
      /\ callbacks[slot[p]][id[p]] # p
      /\ \A s \in Slots, i \in Ids : callbacks[s][i] # p

\* a call has returned "Response timeout" because its sender was dropped,
\* and another because its deadline elapsed
C1_Witness ==
  /\ \E p \in Procs : pc[p] = "done" /\ rx[p].st = "closed" /\ ret[p] = TimeoutR
  /\ \E p \in Procs : pc[p] = "done" /\ rx[p].st = "empty" /\ ret[p] = TimeoutR

\* C2: the cache holds only success envelopes carrying a response, and no
\* entry under a key made from the method blockchain.atomicals.get_global.
C2_CacheExclusion ==
  /\ \A k \in DOMAIN cache :
       /\ cache[k].success
       /\ cache[k].response # None
       /\ cache[k].code = None
       /\ cache[k].message = None
  /\ \A ps \in ParamArrays : to_cache_key(GetGlobal, ps) \notin DOMAIN cache

\* the poller's get_global call has returned a result, an HTTP call has
\* returned an upstream error, and neither is in the cache
C2_Witness ==
  /\ pc[Poller] = "done" /\ ret[Poller].success
  /\ pc["h1"] = "done" /\ method["h1"] # GetGlobal /\ ret["h1"].code = "1"
  /\ DOMAIN cache = {}

\* C4: when the poller observes a height other than the last one, the cache
\* is emptied.
C4_TipChangeInvalidates ==
  [][block_height' # block_height => DOMAIN cache' = {}]_vars

\* C5: a call that was dispatched returns: it does not end by a panic.
C5_EveryCallReturns ==
  \A p \in Procs : ~(pc[p] = "panicked" /\ rx[p].st # "unused")

\* C5, the part on the deadline: a call whose channel stayed empty (or whose
\* sender was dropped) returns the "Response timeout" envelope, whatever the
\* state of the connection, and the steps it takes leave the cache alone.
C5_TimeoutEnvelope ==
  [][\A p \in Procs :
       /\ (pc[p] = "wait" /\ pc'[p] = "cleanup") => cache' = cache
       /\ (pc[p] = "cleanup" /\ pc'[p] # "cleanup") =>
            /\ pc'[p] = "done"
            /\ ret'[p] = TimeoutR
            /\ cache' = cache]_vars

\* C6 (I1): an id is in the registry of at most one slot, and no two calls in
\* flight hold the same id (the burst has fewer than 2^IdBits calls).
C6_IdUnique ==
  /\ \A i \in Ids : Cardinality({s \in Slots : callbacks[s][i] # None}) <= 1
  /\ \A p, q \in Procs :
       (p # q /\ InFlight(p) /\ InFlight(q)) => id[p] # id[q]

\* C7 as stated: any 2^IdBits successive sequential calls return pairwise
\* different values.
C7_PeriodFull ==
  \A i, j \in 1 .. Len(history) :
    (i < j /\ j - i < IdModulus) => history[i] # history[j]

\* C7 as amended: U32_MAX is never returned; sequential calls return
\* 0, 1, .., U32_MAX - 1 and then 0 again, so that two calls return the same
\* value exactly when their distance is a multiple of 2^IdBits - 1.
C7_PeriodAmended ==
  /\ \A i \in 1 .. Len(history) : history[i] \in 0 .. (U32_MAX - 1)
  /\ \A i \in 1 .. (Len(history) - 1) :
       history[i + 1] = IF history[i] = U32_MAX - 1 THEN 0 ELSE history[i] + 1
  /\ \A i, j \in 1 .. Len(history) :
       i < j => (history[i] = history[j] <=> (j - i) % (IdModulus - 1) = 0)

\* the counter has gone round: the call after the one that returned
\* U32_MAX - 1 has returned 0
C7_Witness ==
  \E i \in 1 .. (Len(history) - 1) :
    history[i] = U32_MAX - 1 /\ history[i + 1] = 0

\* C8: two of fewer than 2^IdBits - 1 successive calls, concurrent or not,
\* never return the same value (the claim says so of 2^IdBits successive
\* calls).
C8_ConcurrentDistinct ==
  \A i, j \in 1 .. Len(history) :
    (i < j /\ j - i < IdModulus - 1) => history[i] # history[j]


\* C3: a call for a cacheable method whose key is in the cache returns the
\* cached envelope, which is the envelope the call that inserted it returned;
\* it inserts nothing into a registry and enqueues no frame.
C3_CacheHit ==
  [][\A p \in Procs :
       /\ (/\ pc[p] = "lookup" /\ pc'[p] # "lookup"
           /\ method[p] # GetGlobal
           /\ Key(p) \in DOMAIN cache) =>
            /\ pc'[p] = "done"
            /\ ret'[p] = cache[Key(p)]
            /\ rx'[p] = RxUnused
            /\ callbacks' = callbacks
            /\ queue' = queue
       /\ (/\ pc[p] = "wait" /\ pc'[p] = "done"
           /\ method[p] # GetGlobal
           /\ ret'[p].success) =>
            /\ Key(p) \in DOMAIN cache'
            /\ cache'[Key(p)] = ret'[p]]_vars

\* a second call for ("blockchain.block.header", ["100"]) has returned the
\* cached result without a channel of its own
C3_Witness ==
  /\ pc["h1"] = "done"
  /\ rx["h1"].st = "unused"
  /\ params["h1"] = "[\"100\"]"
  /\ ret["h1"] = R_ok("\"deadbeef\"")
  /\ \A s \in Slots : queue[s] = <<>> /\ \A i \in Ids : callbacks[s][i] = None

\* C9: the envelope a call returns for a delivered response: the result if
\* there is one; else code and message of the error object; else "No
\* response"; only the first is inserted into the cache, and only for a
\* cacheable method.
C9_OutcomeMapping ==
  [][\A p \in Procs :
       (pc[p] = "wait" /\ rx[p].st = "ready" /\ pc'[p] = "done") =>
         LET rep == rx[p]
         IN  /\ rep.result # None =>
                  /\ ret'[p] = [success |-> TRUE, response |-> rep.result,
                                code |-> None, message |-> None, health |-> None]
                  /\ IF method[p] # GetGlobal
                       THEN /\ DOMAIN cache' = DOMAIN cache \cup {Key(p)}
                            /\ cache'[Key(p)] = ret'[p]
                            /\ \A k \in DOMAIN cache \ {Key(p)} : cache'[k] = cache[k]
                       ELSE cache' = cache
             /\ (rep.result = None /\ rep.error = ErrorObject) =>
                  /\ ret'[p] = [success |-> FALSE, response |-> None,
                                code |-> "1", message |-> "\"bad\"",
                                health |-> None]
                  /\ cache' = cache
             /\ (rep.result = None /\ rep.error = None) =>
                  /\ ret'[p] = [success |-> FALSE, response |-> None,
                                code |-> "-1", message |-> "\"No response\"",
                                health |-> None]
                  /\ cache' = cache]_vars

\* a call has returned the code and message of an upstream error object
C9_Witness ==
  /\ pc["h1"] = "done"
  /\ rx["h1"].st = "taken"
  /\ ret["h1"] = [success |-> FALSE, response |-> None, code |-> "1",
                  message |-> "\"bad\"", health |-> None]

\* the params of a request are no JSON array (empty and missing params stand
\* for [])
Malformed(in) ==
  \/ in.kind = "GET" /\ in.value \notin {None, "", "[]", "[\"100\"]"}
  \/ in.kind = "POST" /\ in.value \notin {NoBody, None, "[]", "[\"100\"]"}

C11_HealthProbe ==
  [][\A p \in Handlers :
       kind[p] = "health" =>
         /\ pc[p] # "lookup"
         /\ pc'[p] # pc[p] => cache' = cache
         /\ (pc[p] = "health_dispatch" /\ pc'[p] # pc[p]) =>
              /\ queue'[slot[p]] =
                   Append(queue[slot[p]],
                          [id |-> id[p], method |-> GetGlobal, params |-> "[]"])
              /\ \A s \in Slots \ {slot[p]} : queue'[s] = queue[s]
         /\ (pc[p] # "health_dispatch" /\ pc'[p] # pc[p]) => queue' = queue
         /\ (pc[p] # "done" /\ pc'[p] = "done") =>
              /\ ret'[p].success
              /\ ret'[p].response = None
              /\ ret'[p].health \in {"true", "false"}
              /\ ret'[p].health = "true" <=>
                   (rx[p].st = "ready" /\ rx[p].result # None)
              /\ callbacks'[slot[p]][id[p]] # p
              /\ pc[p] = "health_cleanup" => callbacks'[slot[p]][id[p]] = None]_vars

\* one probe has answered health = true, another health = false after a
\* response that carried an error and no result
C11_Witness ==
  /\ pc["h1"] = "done" /\ kind["h1"] = "health"
  /\ ret["h1"] = [success |-> TRUE, response |-> None, code |-> None,
                  message |-> None, health |-> "true"]
  /\ pc["h2"] = "done" /\ kind["h2"] = "health"
  /\ rx["h2"].st = "taken" /\ ret["h2"].health = "false"
  /\ slot["h1"] # slot["h2"]


\* C12: the tip poller never stops: when a poll has returned, whatever it
\* returned, the poller goes on to its next poll; and a poll that returned
\* no result, a result that is no object, or an object without a readable
\* global.height leaves the last height and the cache as they are.
C12_PollerContinues ==
  [][(pc[Poller] = "done" /\ pc'[Poller] # "done") =>
       /\ pc'[Poller] = "idle"
       /\ (\/ ret[Poller].response = None
           \/ ~IsObject(ret[Poller].response)
           \/ HeightOf(ret[Poller].response) = -1) =>
            /\ block_height' = block_height
            /\ cache' = cache]_vars


\* C13: the index of a client is always a position of its endpoint list; it
\* moves to (i + 1) mod N when a connect attempt fails and when an open
\* session ends, and at no other time; and the client is never stuck: while
\* connecting, a connect attempt can succeed or fail, and an open session can
\* end.
C13_EndpointRotation ==
  /\ [](\A s \in OneInstance :
          /\ index[s] \in 0 .. (Len(Endpoints) - 1)
          /\ conn[s] = "Connecting" =>
               /\ ENABLED client_connect(s)
               /\ ENABLED client_connect_failed(s, Endpoints)
          /\ conn[s] = "Open" => ENABLED client_disconnect(s, Endpoints))
  /\ [][\A s \in OneInstance :
          /\ (conn[s] = "Open" /\ conn'[s] = "Connecting") =>
               index'[s] = (index[s] + 1) % Len(Endpoints)
          /\ (conn[s] = "Connecting" /\ conn'[s] = "Open") =>
               index'[s] = index[s]
          /\ conn[s] = conn'[s] =>
               \/ index'[s] = index[s]
               \/ /\ conn[s] = "Connecting"
                  /\ index'[s] = (index[s] + 1) % Len(Endpoints)]_vars

\* the client is back at the first endpoint after a session that ended by a
\* read error (its sender task is still alive)
C13_Witness ==
  /\ conn[0] = "Connecting"
  /\ index[0] = 0
  /\ stale[0] = 1


\* C14: when the receive loop of a connection ends, by a close frame, a read
\* error or the end of the stream, the sender task of that connection is gone
\* by the time the client has left Open; so no sender task of an earlier
\* connection takes a request from the outbound queue.
C14_ReceiverEndAbortsSender ==
  [][\A s \in OneInstance :
       /\ (conn[s] = "Open" /\ conn'[s] = "Connecting") =>
            /\ sender'[s] = "none"
            /\ stale'[s] = 0
       /\ Len(queue'[s]) < Len(queue[s]) => stale[s] = 0]_vars

\* C15: a client is never in Open with its sender task ended by a failed
\* write while requests wait in the outbound queue.
C15_SenderFailureReconnects ==
  \A s \in OneInstance :
    ~(conn[s] = "Open" /\ sender[s] = "finished" /\ queue[s] # <<>>)

\* C16: a request leaves the outbound queue only by being written to the
\* open connection by that connection's sender task, the head of the queue
\* first; while the client is connecting the queue loses nothing.
C16_QueueSurvives ==
  [][\A s \in OneInstance :
       queue'[s] # queue[s] =>
         \/ /\ Len(queue'[s]) = Len(queue[s]) + 1
            /\ SubSeq(queue'[s], 1, Len(queue[s])) = queue[s]
         \/ /\ queue[s] # <<>>
            /\ queue'[s] = Tail(queue[s])
            /\ conn[s] = "Open"
            /\ sender[s] = "running"
            /\ sender'[s] = "running"]_vars

\* C17: a disconnect, a failed connect attempt and a connect leave the
\* registry of the slot and the channels of the calls as they are.
C17_ReconnectKeepsRegistry ==
  [][\A s \in OneInstance :
       (conn'[s] # conn[s] \/ index'[s] # index[s]) =>
         /\ callbacks' = callbacks
         /\ rx' = rx
         /\ pc' = pc]_vars

\* a call is still registered and waiting while its client, after a
\* disconnect, is connecting to the next endpoint
C17_Witness ==
  /\ conn[0] = "Connecting"
  /\ index[0] = 1
  /\ pc["h1"] = "wait"
  /\ rx["h1"].st = "empty"
  /\ callbacks[0][id["h1"]] = "h1"
  /\ queue[0] = <<>>


\* C18: every entry of a registry belongs to a call that is still there to
\* remove it, at its deadline at the latest: a call that waits on its channel
\* or is about to remove its id, which holds the id and the slot of the
\* entry.  No entry outlives its call, cancelled or not.
C18_NoEntryOutlivesItsCall ==
  \A s \in Slots, i \in Ids :
    callbacks[s][i] # None =>
      \E p \in Procs :
        /\ callbacks[s][i] = p
        /\ InFlight(p)
        /\ slot[p] = s
        /\ id[p] = i


\* C19: when a call inserts under an id that is already registered, the
\* earlier call returns "Response timeout" and the later call's entry stays:
\* the cleanup of one call neither removes the entry of another call that is
\* in flight nor closes its channel.
C19_CleanupSparesOthers ==
  [][\A p, q \in Procs :
       (/\ p # q
        /\ pc[p] \in {"cleanup", "health_cleanup"}
        /\ pc'[p] = "done"
        /\ InFlight(q)
        /\ callbacks[slot[q]][id[q]] = q) =>
         /\ callbacks'[slot[q]][id[q]] = q
         /\ rx'[q] = rx[q]]_vars


\* C20: before the counter has come round, a response frame is delivered to
\* at most one call: the call that holds the frame's id and registered it on
\* the slot the frame came in on, and whose request the frame answers; a frame
\* whose id is not registered on that slot changes no registry, no channel and
\* not the cache.  So a success envelope a call returns, and one the cache
\* holds, carries the upstream's result for the call's own method and params.
C20_NoCrossTalk ==
  /\ [](/\ \A p \in Handlers :
             (pc[p] = "done" /\ kind[p] = "request" /\ ret[p].success) =>
               ret[p].response = UpstreamResult(method[p], params[p])
        /\ \A m \in Methods, ps \in ParamArrays :
             to_cache_key(m, ps) \in DOMAIN cache =>
               cache[to_cache_key(m, ps)] = R_ok(UpstreamResult(m, ps)))
  /\ [][/\ \A p \in Procs :
             (rx[p].st # "ready" /\ rx'[p].st = "ready") =>
               /\ callbacks[slot[p]][id[p]] = p
               /\ callbacks'[slot[p]][id[p]] = None
               /\ JsonRpcRequest(id[p], method[p], params[p])
                    \in upstream[slot[p]] \ upstream'[slot[p]]
               /\ \A q \in Procs \ {p} : rx'[q] = rx[q]
               /\ cache' = cache
        /\ \A s \in Slots : \A f \in upstream[s] \ upstream'[s] :
             callbacks[s][f.id] = None =>
               /\ callbacks' = callbacks
               /\ rx' = rx
               /\ cache' = cache]_vars

\* two calls with different params were in flight on one slot at one time,
\* under different ids, and each has returned the result for its own params
C20_Witness ==
  /\ pc["h1"] = "done" /\ pc["h2"] = "done"
  /\ slot["h1"] = slot["h2"]
  /\ rx["h1"].st = "taken" /\ rx["h2"].st = "taken"
  /\ method["h1"] = method["h2"] /\ method["h1"] # GetGlobal
  /\ ret["h1"] = R_ok("\"deadbeef\"")
  /\ ret["h2"] = R_ok("\"cafe\"")
  /\ id["h1"] = 1 /\ id["h2"] = 0


=============================================================================
